---------------------------- MODULE Spec2Model ----------------------------
(* Model of docs/conf.py of Gaussian-Extractor: the top-to-bottom          *)
(* evaluation of the module by the documentation builder, the setup(app)  *)
(* hook, and the Doxygen run that exhale launches on exhaleDoxygenStdin.  *)
(*                                                                        *)
(* Strings that are paths or wildcard patterns are kept as sequences of   *)
(* lexical tokens ("/", "*", "..", a name, an extension such as ".cpp"),  *)
(* because they are taken apart by abspath and by wildcard matching.      *)
EXTENDS Integers, Sequences, FiniteSets, TLC

VARIABLES
    pc,         \* index in Program of the next statement of conf.py; Len(Program)+1 when evaluated
    err,        \* TRUE once a statement raised NameError
    env,        \* the module namespace of conf.py: bound name -> value
    sys_path,   \* sys.path of the interpreter (process wide, survives re-evaluation)
    path0,      \* sys.path as it was before conf.py was first evaluated
    cwd,        \* working directory (the documentation directory), as segments below /
    loads,      \* number of evaluations of conf.py started so far
    app,        \* the application object handed to setup
    calls,      \* number of setup calls made
    passed,     \* set of the application objects setup has been called with
    returned,   \* set of the values setup has returned
    dpc,        \* index of the next line of exhaleDoxygenStdin Doxygen reads; 0 = not started
    doxy,       \* Doxygen's configuration: tag -> list of words
    scanned,    \* files of the input tree Doxygen has looked at
    documented  \* files Doxygen has taken as input

vars == <<pc, err, env, sys_path, path0, cwd, loads, app, calls, passed, returned,
          dpc, doxy, scanned, documented>>

-----------------------------------------------------------------------------
(* Bounds *)

MaxPathLen == 2

MaxLoads == 2

MaxCalls == 2

-----------------------------------------------------------------------------
(* Helpers on sequences *)

Range(s) == {s[i] : i \in 1..Len(s)}

EmptyMap == [x \in {} |-> x]

None == "None"

(* os.path.normpath on the segments of an absolute path: "" and "." are   *)
(* dropped, ".." removes the segment before it (and is dropped at /).     *)
RECURSIVE NormInto(_, _)
NormInto(acc, segs) ==
    IF segs = <<>> THEN acc
    ELSE LET s == Head(segs) IN
         IF s = "" \/ s = "." THEN NormInto(acc, Tail(segs))
         ELSE IF s = ".." THEN
              NormInto(IF acc = <<>> THEN acc ELSE SubSeq(acc, 1, Len(acc) - 1), Tail(segs))
         ELSE NormInto(Append(acc, s), Tail(segs))

(* The segments of a relative path given as tokens: split at "/".         *)
Segs(tokens) == SelectSeq(tokens, LAMBDA t : t # "/")

(* os.path.abspath(p) for a relative p: normpath(join(getcwd(), p)).      *)
abspath(p, wd) == NormInto(<<>>, wd \o Segs(p))


-----------------------------------------------------------------------------
(* The values conf.py assigns at module level, in source order.           *)

project == "Gaussian Extractor"

copyright == "2025, Le Nhan Pham"

author == "Le Nhan Pham"

release == "0.5.0"

version == "0.5.0"

master_doc == "index"

extensions ==
    << "sphinx.ext.autodoc", "sphinx.ext.doctest", "sphinx.ext.intersphinx",
       "sphinx.ext.todo", "sphinx.ext.coverage", "sphinx.ext.mathjax",
       "sphinx.ext.ifconfig", "sphinx.ext.viewcode", "sphinx.ext.githubpages",
       "sphinx.ext.napoleon", "breathe", "exhale" >>

(* One line of a Doxygen configuration: TAG op word word ...              *)
DLine(tag, op, words) == [tag |-> tag, op |-> op, words |-> words]

Yes == << <<"YES">> >>

No == << <<"NO">> >>

(* The lines of the exhaleDoxygenStdin string, first to last.             *)
exhaleDoxygenStdin ==
    << DLine("PROJECT_NAME", "=", << <<"GaussianExtractor">> >>),
       DLine("INPUT", "=", << <<"..", "/", "src">> >>),
       DLine("FILE_PATTERNS", "=", << <<"*", ".cpp">>, <<"*", ".hpp">>, <<"*", ".h">>,
                                      <<"*", ".cxx">>, <<"*", ".cc">> >>),
       DLine("RECURSIVE", "=", Yes),
       DLine("GENERATE_XML", "=", Yes),
       DLine("XML_OUTPUT", "=", << <<"xml">> >>),
       DLine("EXTRACT_ALL", "=", Yes),
       DLine("EXTRACT_PRIVATE", "=", Yes),
       DLine("EXTRACT_STATIC", "=", Yes),
       DLine("EXTRACT_LOCAL_CLASSES", "=", Yes),
       DLine("EXTRACT_LOCAL_METHODS", "=", Yes),
       DLine("EXTRACT_ANON_NSPACES", "=", Yes),
       DLine("ENABLE_PREPROCESSING", "=", Yes),
       DLine("VERBATIM_HEADERS", "=", No),
       DLine("XML_PROGRAMLISTING", "=", No),
       DLine("MACRO_EXPANSION", "=", Yes),
       DLine("EXPAND_ONLY_PREDEF", "=", Yes),
       DLine("INLINE_SOURCES", "=", Yes),
       DLine("SHOW_FILES", "=", Yes),
       DLine("EXCLUDE_PATTERNS", "=", << <<"*", "/", "test", "/", "*">>,
                                         <<"*", "/", "tests", "/", "*">>,
                                         <<"*", "/", "example", "/", "*">>,
                                         <<"*", "/", "examples", "/", "*">> >>),
       DLine("HAVE_DOT", "=", Yes),
       DLine("UML_LOOK", "=", Yes),
       DLine("CALL_GRAPH", "=", Yes),
       DLine("CALLER_GRAPH", "=", Yes),
       DLine("INCLUDE_GRAPH", "=", Yes),
       DLine("INCLUDED_BY_GRAPH", "=", Yes),
       DLine("COLLABORATION_GRAPH", "=", Yes),
       DLine("CLASS_DIAGRAMS", "=", Yes),
       DLine("CLASS_GRAPH", "=", Yes),
       DLine("GRAPHICAL_HIERARCHY", "=", Yes),
       DLine("DIRECTORY_GRAPH", "=", Yes),
       DLine("DOT_IMAGE_FORMAT", "=", << <<"svg">> >>),
       DLine("INTERACTIVE_SVG", "=", Yes),
       DLine("DOT_TRANSPARENT", "=", Yes),
       DLine("DOT_MULTI_TARGETS", "=", Yes),
       DLine("QUIET", "=", Yes),
       DLine("EXCLUDE_PATTERNS", "=", << <<"*", "/", "src", "/", "*", ".cpp">> >>) >>

exhale_args(wd) ==
    [ containmentFolder     |-> <<".", "/", "api">>,
      rootFileName          |-> "api.rst",
      rootFileTitle         |-> "Gaussian Extractor API",
      doxygenStripFromPath  |-> abspath(<<"..", "/", "src">>, wd),
      exhaleExecutesDoxygen |-> TRUE,
      exhaleDoxygenStdin    |-> exhaleDoxygenStdin,
      createTreeView        |-> TRUE,
      afterTitleDescription |-> "Comprehensive API documentation for the Gaussian Extractor.",
      verboseBuild          |-> FALSE ]

(* The project registered under the documentation title instead of the   *)
(* Doxygen project name.                                                  *)
breathe_projects_by_title == ("Gaussian Extractor" :> <<".", "/", "xml", "/">>)

breathe_projects == ("GaussianExtractor" :> <<".", "/", "xml", "/">>)

breathe_default_project == "GaussianExtractor"

templates_path == << "_templates" >>

exclude_patterns == << "_build", "Thumbs.db", ".DS_Store" >>

html_theme == "furo"

html_static_path == << "_static" >>

html_css_files == << >>

html_js_files == << >>

latex_elements ==
    [ papersize    |-> "a4paper",
      pointsize    |-> "11pt",
      preamble     |-> << "\\usepackage{amsmath}", "\\usepackage{amssymb}",
                          "\\usepackage{physics}", "\\usepackage{siunitx}" >>,
      figure_align |-> "htbp" ]

(* An output descriptor: the tuple's first element is the start document. *)
latex_documents(g) ==
    << [ startdoc |-> g["master_doc"], target |-> "GaussianExtractor.tex",
         title |-> "Gaussian Extractor Documentation",
         author |-> "Le Nhan Pham", kind |-> "manual" ] >>

man_pages(g) ==
    << [ startdoc |-> g["master_doc"], target |-> "gaussianextractor",
         title |-> "Gaussian Extractor Documentation",
         author |-> g["author"], kind |-> "1" ] >>

texinfo_documents(g) ==
    << [ startdoc |-> g["master_doc"], target |-> "GaussianExtractor",
         title |-> "Gaussian Extractor Documentation",
         author |-> g["author"], kind |-> "Miscellaneous" ] >>

intersphinx_mapping == ("python" :> << "https://docs.python.org/3/", None >>)

todo_include_todos == TRUE

autoclass_content == "both"

autodoc_member_order == "bysource"

autodoc_default_flags == << "members", "undoc-members", "show-inheritance" >>

napoleon ==
    ( "napoleon_google_docstring" :> TRUE @@
      "napoleon_numpy_docstring" :> TRUE @@
      "napoleon_include_init_with_doc" :> FALSE @@
      "napoleon_include_private_with_doc" :> FALSE @@
      "napoleon_include_special_with_doc" :> TRUE @@
      "napoleon_use_admonition_for_examples" :> FALSE @@
      "napoleon_use_admonition_for_notes" :> FALSE @@
      "napoleon_use_admonition_for_references" :> FALSE @@
      "napoleon_use_ivar" :> FALSE @@
      "napoleon_use_param" :> TRUE @@
      "napoleon_use_rtype" :> TRUE )

pygments_style == "sphinx"

keep_warnings == FALSE

html_context ==
    [ display_github |-> TRUE, github_user |-> "lenhanpham",
      github_repo |-> "gaussian-extractor", github_version |-> "main",
      conf_py_path |-> "/docs/" ]

pdf_documents(g) ==
    << [ startdoc |-> g["master_doc"], target |-> "GaussianExtractor",
         title |-> "Gaussian Extractor Documentation",
         author |-> g["author"], kind |-> "manual" ] >>

linkcheck_ignore ==
    << "https://github.com/lenhanpham/gaussian-extractor/.*",
       "https://docs.python.org/.*",
       "https://en.cppreference.com/.*" >>

(* setup as it would be if it answered by builder.                        *)
setup_by_builder(a, g, p) ==
    [ ret     |-> [ version |-> "0.1",
                    parallel_read_safe |-> TRUE,
                    parallel_write_safe |-> a.builder = "html" ],
      app     |-> a,
      globals |-> g,
      path    |-> p ]

(* setup as it would be if it enabled an extension when called.           *)
setup_adding_extension(a, g, p) ==
    [ ret     |-> [ version |-> "0.1",
                    parallel_read_safe |-> TRUE,
                    parallel_write_safe |-> TRUE ],
      app     |-> [a EXCEPT !.registered = @ \cup {"pdf_documents"}],
      globals |-> (("extensions" :> Append(g["extensions"], "rst2pdf.pdfbuilder")) @@ g),
      path    |-> p ]

(* def setup(app): the call returns a literal dict and has no other       *)
(* statement. The result carries the objects the body can reach (the      *)
(* argument, the module globals, sys.path) as the call leaves them.       *)
setup(a, g, p) ==
    [ ret     |-> [ version |-> "0.1",
                    parallel_read_safe |-> TRUE,
                    parallel_write_safe |-> TRUE ],
      app     |-> a,
      globals |-> g,
      path    |-> p ]

-----------------------------------------------------------------------------
(* The statements of conf.py in source order. reads: the module-level     *)
(* names the statement's expression looks up when it is evaluated.        *)

Stmt(line, kind, target, reads) ==
    [line |-> line, kind |-> kind, target |-> target, reads |-> reads]

Assign(line, target) == Stmt(line, "assign", target, {})

PathSetup ==
    << Stmt(9, "import", "os", {}),
       Stmt(10, "import", "sys", {}),
       Stmt(11, "path_insert", "sys.path", {"sys", "os"}) >>

ProjectInformation ==
    << Assign(15, "project"),
       Assign(16, "copyright"),
       Assign(17, "author"),
       Assign(18, "release"),
       Assign(19, "version") >>

(* The section as it would read had master_doc been left where the        *)
(* output descriptors no longer find it.                                  *)
GeneralConfiguration_master_doc_missing ==
    << Assign(27, "extensions"),
       Stmt(42, "assign", "exhale_args", {"os"}),
       Assign(94, "breathe_projects"),
       Assign(97, "breathe_default_project"),
       Assign(100, "templates_path"),
       Assign(104, "exclude_patterns") >>

GeneralConfiguration ==
    << Assign(24, "master_doc"),
       Assign(27, "extensions"),
       Stmt(42, "assign", "exhale_args", {"os"}),
       Assign(94, "breathe_projects"),
       Assign(97, "breathe_default_project"),
       Assign(100, "templates_path"),
       Assign(104, "exclude_patterns") >>

HtmlOptions ==
    << Assign(108, "html_theme"),
       Assign(111, "html_static_path"),
       Assign(114, "html_css_files"),
       Assign(115, "html_js_files") >>

OutputDescriptors ==
    << Assign(119, "latex_elements"),
       Stmt(132, "assign", "latex_documents", {"master_doc"}),
       Stmt(139, "assign", "man_pages", {"master_doc", "author"}),
       Stmt(146, "assign", "texinfo_documents", {"master_doc", "author"}) >>

ExtensionConfiguration ==
    << Assign(155, "intersphinx_mapping"),
       Assign(160, "todo_include_todos"),
       Assign(163, "autoclass_content"),
       Assign(164, "autodoc_member_order"),
       Assign(165, "autodoc_default_flags"),
       Assign(168, "napoleon_google_docstring"),
       Assign(169, "napoleon_numpy_docstring"),
       Assign(170, "napoleon_include_init_with_doc"),
       Assign(171, "napoleon_include_private_with_doc"),
       Assign(172, "napoleon_include_special_with_doc"),
       Assign(173, "napoleon_use_admonition_for_examples"),
       Assign(174, "napoleon_use_admonition_for_notes"),
       Assign(175, "napoleon_use_admonition_for_references"),
       Assign(176, "napoleon_use_ivar"),
       Assign(177, "napoleon_use_param"),
       Assign(178, "napoleon_use_rtype"),
       Assign(181, "pygments_style"),
       Assign(184, "keep_warnings") >>

TrailingSections ==
    << Assign(188, "html_context"),
       Stmt(198, "assign", "pdf_documents", {"master_doc", "author"}),
       Assign(205, "linkcheck_ignore"),
       Stmt(213, "def", "setup", {}) >>

Program ==
    PathSetup \o ProjectInformation \o GeneralConfiguration \o HtmlOptions
    \o OutputDescriptors \o ExtensionConfiguration \o TrailingSections

(* The value the right-hand side of the assignment to target evaluates    *)
(* to, in namespace g with working directory wd.                          *)
ValueOf(target, g, wd) ==
    CASE target = "project" -> project
      [] target = "copyright" -> copyright
      [] target = "author" -> author
      [] target = "release" -> release
      [] target = "version" -> version
      [] target = "master_doc" -> master_doc
      [] target = "extensions" -> extensions
      [] target = "exhale_args" -> exhale_args(wd)
      [] target = "breathe_projects" -> breathe_projects
      [] target = "breathe_default_project" -> breathe_default_project
      [] target = "templates_path" -> templates_path
      [] target = "exclude_patterns" -> exclude_patterns
      [] target = "html_theme" -> html_theme
      [] target = "html_static_path" -> html_static_path
      [] target = "html_css_files" -> html_css_files
      [] target = "html_js_files" -> html_js_files
      [] target = "latex_elements" -> latex_elements
      [] target = "latex_documents" -> latex_documents(g)
      [] target = "man_pages" -> man_pages(g)
      [] target = "texinfo_documents" -> texinfo_documents(g)
      [] target = "intersphinx_mapping" -> intersphinx_mapping
      [] target = "todo_include_todos" -> todo_include_todos
      [] target = "autoclass_content" -> autoclass_content
      [] target = "autodoc_member_order" -> autodoc_member_order
      [] target = "autodoc_default_flags" -> autodoc_default_flags
      [] target \in DOMAIN napoleon -> napoleon[target]
      [] target = "pygments_style" -> pygments_style
      [] target = "keep_warnings" -> keep_warnings
      [] target = "html_context" -> html_context
      [] target = "pdf_documents" -> pdf_documents(g)
      [] target = "linkcheck_ignore" -> linkcheck_ignore

Evaluated == pc = Len(Program) + 1

Running == pc \in 1..Len(Program) /\ ~err

(* name = value in namespace g: binds or rebinds.                         *)
Bind(g, name, value) == (name :> value) @@ g

(* The entry put at the end, as sys.path.append would.                    *)
path_append(p, entry) == p \o <<entry>>

(* sys.path.insert(0, entry) *)
path_insert(p, entry) == <<entry>> \o p

-----------------------------------------------------------------------------
(* The interpreter and the builder *)

PathEntries == { <<"usr", "lib", "python3">>, <<"site-packages">> }

RECURSIVE SeqsUpTo(_, _)
SeqsUpTo(S, n) ==
    IF n = 0 THEN { <<>> }
    ELSE LET shorter == SeqsUpTo(S, n - 1)
         IN  shorter \cup { Append(q, x) : q \in shorter, x \in S }

WorkDirs == { <<"repo", "docs">>, <<"home", "user", "gaussian-extractor", "docs">> }

Builders == { "html", "latex" }

(* The application object: the builder it was created for and the       *)
(* configuration values registered on it.                                 *)
Apps == [builder : Builders, registered : { {} }]

Init ==
    /\ pc = 0
    /\ err = FALSE
    /\ env = EmptyMap
    /\ sys_path \in SeqsUpTo(PathEntries, MaxPathLen)
    /\ path0 = sys_path
    /\ cwd \in WorkDirs
    /\ loads = 0
    /\ app \in Apps
    /\ calls = 0
    /\ passed = {}
    /\ returned = {}
    /\ dpc = 0
    /\ doxy = EmptyMap
    /\ scanned = 0
    /\ documented = {}

(* A build starts: a new application object is made and conf.py is        *)
(* evaluated in a fresh namespace.                                        *)
Load ==
    /\ pc = 0 \/ Evaluated \/ err
    /\ loads < MaxLoads
    /\ pc' = 1
    /\ err' = FALSE
    /\ env' = EmptyMap
    /\ loads' = loads + 1
    /\ dpc' = 0
    /\ doxy' = EmptyMap
    /\ scanned' = 0
    /\ documented' = {}
    /\ app' \in Apps
    /\ UNCHANGED <<sys_path, path0, cwd, calls, passed, returned>>

(* A statement whose expression reads an unbound name raises NameError    *)
(* and the evaluation stops there.                                        *)
NameError(st) == ~(st.reads \subseteq DOMAIN env)

Import ==
    /\ Running
    /\ Program[pc].kind = "import"
    /\ IF NameError(Program[pc])
       THEN err' = TRUE /\ UNCHANGED <<pc, env>>
       ELSE /\ env' = Bind(env, Program[pc].target, "<module>")
            /\ pc' = pc + 1
            /\ err' = err
    /\ UNCHANGED <<sys_path, path0, cwd, loads, app, calls, passed, returned,
                   dpc, doxy, scanned, documented>>

PathInsert ==
    /\ Running
    /\ Program[pc].kind = "path_insert"
    /\ IF NameError(Program[pc])
       THEN err' = TRUE /\ UNCHANGED <<pc, sys_path>>
       ELSE /\ sys_path' = path_insert(sys_path, abspath(<<"..", "/", "src">>, cwd))
            /\ pc' = pc + 1
            /\ err' = err
    /\ UNCHANGED <<env, path0, cwd, loads, app, calls, passed, returned,
                   dpc, doxy, scanned, documented>>

AssignStmt ==
    /\ Running
    /\ Program[pc].kind = "assign"
    /\ IF NameError(Program[pc])
       THEN err' = TRUE /\ UNCHANGED <<pc, env>>
       ELSE /\ env' = Bind(env, Program[pc].target, ValueOf(Program[pc].target, env, cwd))
            /\ pc' = pc + 1
            /\ err' = err
    /\ UNCHANGED <<sys_path, path0, cwd, loads, app, calls, passed, returned,
                   dpc, doxy, scanned, documented>>

DefSetup ==
    /\ Running
    /\ Program[pc].kind = "def"
    /\ env' = Bind(env, Program[pc].target, "<function>")
    /\ pc' = pc + 1
    /\ UNCHANGED <<err, sys_path, path0, cwd, loads, app, calls, passed, returned,
                   dpc, doxy, scanned, documented>>

(* The builder, or one of its parallel workers, calls setup(app).         *)
Setup ==
    /\ "setup" \in DOMAIN env
    /\ calls < MaxCalls
    /\ LET r == setup(app, env, sys_path) IN
         /\ passed' = passed \cup { app }
         /\ returned' = returned \cup { r.ret }
         /\ app' = r.app
         /\ env' = r.globals
         /\ sys_path' = r.path
    /\ calls' = calls + 1
    /\ UNCHANGED <<pc, err, path0, cwd, loads, dpc, doxy, scanned, documented>>

-----------------------------------------------------------------------------
(* The Doxygen run that exhale launches (exhaleExecutesDoxygen) with      *)
(* exhaleDoxygenStdin as configuration, in the documentation directory.   *)

(* Doxygen reads one line: TAG = words replaces the tag's value,          *)
(* TAG += words appends to it.                                            *)
ApplyLine(cfg, ln) ==
    IF ln.op = "+=" /\ ln.tag \in DOMAIN cfg
    THEN Bind(cfg, ln.tag, cfg[ln.tag] \o ln.words)
    ELSE Bind(cfg, ln.tag, ln.words)

Tag(cfg, tag) == IF tag \in DOMAIN cfg THEN cfg[tag] ELSE <<>>

(* Wildcard matching of a pattern against a string, both as tokens:       *)
(* "*" stands for any run of tokens, "/" included.                        *)
RECURSIVE Match(_, _)
Match(pat, str) ==
    IF pat = <<>> THEN str = <<>>
    ELSE IF Head(pat) = "*"
         THEN Match(Tail(pat), str) \/ (str # <<>> /\ Match(pat, Tail(str)))
         ELSE str # <<>> /\ Head(str) = Head(pat) /\ Match(Tail(pat), Tail(str))

(* The files below the input directory: every directory with every        *)
(* extension, in the order Doxygen walks them.                            *)
SubDirs ==
    << <<>>, <<"core">>, <<"test">>, <<"tests">>, <<"example">>, <<"examples">>,
       <<"core", "tests">> >>

Exts == << ".cpp", ".hpp", ".h", ".cxx", ".cc", ".txt" >>

File(dir, stem, ext) == [dir |-> dir, stem |-> stem, ext |-> ext]

NumFiles == Len(SubDirs) * Len(Exts)

(* The k-th file below root.                                              *)
FileAt(root, k) ==
    File(root \o SubDirs[((k - 1) \div Len(Exts)) + 1], "x", Exts[((k - 1) % Len(Exts)) + 1])

RECURSIVE Slashed(_)
Slashed(segs) ==
    IF segs = <<>> THEN <<>> ELSE <<"/", Head(segs)>> \o Slashed(Tail(segs))

(* The absolute path of a file, and its name, as tokens.                  *)
FullPath(f) == Slashed(f.dir) \o <<"/", f.stem, f.ext>>

FileName(f) == <<f.stem, f.ext>>

MatchesAny(pats, str) == \E i \in 1..Len(pats) : Match(pats[i], str)

(* The directory INPUT names, resolved in the working directory.          *)
InputRoot(cfg, wd) == abspath(Tag(cfg, "INPUT")[1], wd)

(* Doxygen takes a file of the input tree when its name matches one of    *)
(* FILE_PATTERNS and its absolute path matches none of EXCLUDE_PATTERNS;  *)
(* files below the input directory itself need RECURSIVE = YES.           *)
Selected(cfg, wd, f) ==
    /\ (f.dir = InputRoot(cfg, wd) \/ Tag(cfg, "RECURSIVE") = Yes)
    /\ MatchesAny(Tag(cfg, "FILE_PATTERNS"), FileName(f))
    /\ ~MatchesAny(Tag(cfg, "EXCLUDE_PATTERNS"), FullPath(f))

DoxygenLines == env["exhale_args"].exhaleDoxygenStdin

DoxygenParsed == dpc > 0 /\ Evaluated /\ dpc = Len(DoxygenLines) + 1

DoxygenStart ==
    /\ Evaluated
    /\ "exhale" \in Range(env["extensions"])
    /\ env["exhale_args"].exhaleExecutesDoxygen
    /\ dpc = 0
    /\ dpc' = 1
    /\ doxy' = EmptyMap
    /\ UNCHANGED <<pc, err, env, sys_path, path0, cwd, loads, app, calls, passed, returned,
                   scanned, documented>>

DoxygenLine ==
    /\ Evaluated
    /\ dpc \in 1..Len(DoxygenLines)
    /\ doxy' = ApplyLine(doxy, DoxygenLines[dpc])
    /\ dpc' = dpc + 1
    /\ UNCHANGED <<pc, err, env, sys_path, path0, cwd, loads, app, calls, passed, returned,
                   scanned, documented>>

DoxygenReadFile ==
    /\ DoxygenParsed
    /\ scanned < NumFiles
    /\ LET f == FileAt(InputRoot(doxy, cwd), scanned + 1) IN
         documented' = IF Selected(doxy, cwd, f) THEN documented \cup {f} ELSE documented
    /\ scanned' = scanned + 1
    /\ UNCHANGED <<pc, err, env, sys_path, path0, cwd, loads, app, calls, passed, returned,
                   dpc, doxy>>

-----------------------------------------------------------------------------

Next ==
    \/ Load
    \/ Import
    \/ PathInsert
    \/ AssignStmt
    \/ DefSetup
    \/ Setup
    \/ DoxygenStart
    \/ DoxygenLine
    \/ DoxygenReadFile

Spec == Init /\ [][Next]_vars

-----------------------------------------------------------------------------
(* The configuration schema of the documentation builder: the values its  *)
(* core registers and the values each extension registers when enabled.   *)
(* autodoc_default_flags is not among autodoc's values (it was replaced   *)
(* by autodoc_default_options); pdf_documents is a value of the           *)
(* rst2pdf.pdfbuilder extension.                                          *)

SphinxCoreKeys ==
    { "project", "copyright", "author", "release", "version", "master_doc",
      "extensions", "templates_path", "exclude_patterns", "pygments_style",
      "keep_warnings", "html_theme", "html_static_path", "html_css_files",
      "html_js_files", "html_context", "latex_elements", "latex_documents",
      "man_pages", "texinfo_documents", "linkcheck_ignore" }

ExtensionKeys(ext) ==
    CASE ext = "sphinx.ext.autodoc" ->
           { "autoclass_content", "autodoc_member_order", "autodoc_default_options" }
      [] ext = "sphinx.ext.intersphinx" -> { "intersphinx_mapping" }
      [] ext = "sphinx.ext.todo" -> { "todo_include_todos" }
      [] ext = "sphinx.ext.napoleon" -> DOMAIN napoleon
      [] ext = "breathe" -> { "breathe_projects", "breathe_default_project" }
      [] ext = "exhale" -> { "exhale_args" }
      [] ext = "rst2pdf.pdfbuilder" -> { "pdf_documents" }
      [] OTHER -> {}

(* The names of the namespace that are configuration values: all but the  *)
(* imported modules and the setup hook.                                   *)
ConfigKeys(g) == DOMAIN g \ { "os", "sys", "setup" }

InSchema(g, key) ==
    \/ key \in SphinxCoreKeys
    \/ \E i \in 1..Len(g["extensions"]) : key \in ExtensionKeys(g["extensions"][i])

-----------------------------------------------------------------------------
(* Properties *)

SetupKeys == { "version", "parallel_read_safe", "parallel_write_safe" }

(* C1: whatever application object setup is called with and however many  *)
(* calls came before, it returns one and the same mapping, with exactly   *)
(* the keys version, parallel_read_safe and parallel_write_safe and both  *)
(* flags true.                                                            *)
C1_SetupReturnsConstant ==
    /\ Cardinality(returned) <= 1
    /\ \A r \in returned :
         /\ DOMAIN r = SetupKeys
         /\ r.parallel_read_safe = TRUE
         /\ r.parallel_write_safe = TRUE

(* setup has been called at least twice, with different application      *)
(* objects.                                                               *)
C1_Witness == calls >= 2 /\ Cardinality(passed) >= 2 /\ returned # {}

(* C2: a call of setup changes neither the application object nor the     *)
(* module namespace nor sys.path nor anything of the build; only the      *)
(* record of the calls moves.                                             *)
C2_SetupHasNoEffect ==
    [][calls' # calls =>
          UNCHANGED <<pc, err, env, sys_path, path0, cwd, loads, app,
                      dpc, doxy, scanned, documented>>]_vars

(* setup has been called twice on the evaluated configuration.            *)
C2_Witness == calls >= 2 /\ Evaluated /\ "extensions" \in DOMAIN env

(* C3: once conf.py is evaluated, every configuration value it assigned   *)
(* is one the builder's core or an enabled extension defines.             *)
C3_KeysMatchSchema ==
    (Evaluated /\ ~err) => \A key \in ConfigKeys(env) : InSchema(env, key)

TestPatterns ==
    { <<"*", "/", "test", "/", "*">>, <<"*", "/", "tests", "/", "*">>,
      <<"*", "/", "example", "/", "*">>, <<"*", "/", "examples", "/", "*">> }

TestDirs == { "test", "tests", "example", "examples" }

InTestDir(f) == \E i \in 1..Len(f.dir) : f.dir[i] \in TestDirs

(* C4: once Doxygen has read exhaleDoxygenStdin to the end,               *)
(* EXCLUDE_PATTERNS holds the four test and example patterns, and no file *)
(* of a test, tests, example or examples directory is taken as input.     *)
C4_TestDirsExcluded ==
    DoxygenParsed =>
        /\ TestPatterns \subseteq Range(Tag(doxy, "EXCLUDE_PATTERNS"))
        /\ \A f \in documented : ~InTestDir(f)

(* C5: every file Doxygen has looked at whose name matches one of         *)
(* FILE_PATTERNS and which is in no test or example directory has been    *)
(* taken as input, x.cpp as well as x.hpp.                                *)
C5_SourcesDocumented ==
    DoxygenParsed =>
        \A k \in 1..scanned :
            LET f == FileAt(InputRoot(doxy, cwd), k) IN
              (MatchesAny(Tag(doxy, "FILE_PATTERNS"), FileName(f)) /\ ~InTestDir(f))
                  => f \in documented

Descriptors == { "latex_documents", "man_pages", "texinfo_documents", "pdf_documents" }

ReadsAuthor == { "man_pages", "texinfo_documents", "pdf_documents" }

(* C6: no statement of conf.py reads master_doc or author before it is    *)
(* assigned (no NameError), master_doc is assigned once, and every output *)
(* descriptor that is bound has one entry whose start document is the     *)
(* value of master_doc, index; those built from author carry its value.   *)
C6_MasterDocBeforeUse ==
    /\ ~err
    /\ Cardinality({ i \in 1..Len(Program) : Program[i].target = "master_doc" }) = 1
    /\ \A d \in Descriptors \cap DOMAIN env :
         /\ Len(env[d]) = 1
         /\ "master_doc" \in DOMAIN env
         /\ env[d][1].startdoc = env["master_doc"]
         /\ env[d][1].startdoc = "index"
    /\ \A d \in ReadsAuthor \cap DOMAIN env :
         /\ "author" \in DOMAIN env
         /\ env[d][1].author = env["author"]

(* conf.py is evaluated to the end and all four descriptors are bound.    *)
C6_Witness == Evaluated /\ ~err /\ Descriptors \subseteq DOMAIN env

(* C7: once Doxygen has read its configuration, the default Breathe       *)
(* project is a key of breathe_projects and is the Doxygen PROJECT_NAME,  *)
(* GENERATE_XML is YES, and the directory the project maps to is the      *)
(* XML_OUTPUT directory, both resolved in the documentation directory.    *)
C7_BreatheReadsDoxygenXml ==
    DoxygenParsed =>
        /\ env["breathe_default_project"] \in DOMAIN env["breathe_projects"]
        /\ Tag(doxy, "PROJECT_NAME") = << <<env["breathe_default_project"]>> >>
        /\ Tag(doxy, "GENERATE_XML") = Yes
        /\ Len(Tag(doxy, "XML_OUTPUT")) = 1
        /\ abspath(env["breathe_projects"][env["breathe_default_project"]], cwd)
             = abspath(Tag(doxy, "XML_OUTPUT")[1], cwd)

(* Doxygen has read the whole of exhaleDoxygenStdin.                      *)
C7_Witness == DoxygenParsed /\ "XML_OUTPUT" \in DOMAIN doxy

RECURSIVE Copies(_, _)
Copies(n, x) == IF n = 0 THEN <<>> ELSE <<x>> \o Copies(n - 1, x)

InsertAt == CHOOSE i \in 1..Len(Program) : Program[i].kind = "path_insert"

(* The number of times the sys.path.insert statement has run.             *)
Inserts == IF loads = 0 THEN 0 ELSE IF pc > InsertAt THEN loads ELSE loads - 1

SrcDir == abspath(<<"..", "/", "src">>, cwd)

(* C8: sys.path is always the path as it was before the first evaluation, *)
(* in its order, behind one copy of the absolute ../src per evaluation    *)
(* of conf.py; and doxygenStripFromPath is that same absolute path.       *)
C8_SysPathOnlyGrowsAtFront ==
    /\ sys_path = Copies(Inserts, SrcDir) \o path0
    /\ "exhale_args" \in DOMAIN env =>
         /\ env["exhale_args"].doxygenStripFromPath = SrcDir
         /\ env["exhale_args"].doxygenStripFromPath = sys_path[1]

(* conf.py has been evaluated twice on a sys.path that had entries.       *)
C8_Witness == loads = 2 /\ Evaluated /\ Len(path0) >= 1 /\ Len(sys_path) = Len(path0) + 2

=============================================================================
